---- MODULE Spec2Model ----
(***************************************************************************)
(* token-bucket.ts: the per-key token-bucket rate limiter of src/index.ts. *)
(*                                                                         *)
(* Numbers.  The program computes on IEEE doubles; the model computes on   *)
(* exact fixed-point numbers with denominator Scale = interval * refill:   *)
(* a token count x is stored as x * Scale and a time of y milliseconds as  *)
(* y * Scale.  The clock moves in steps of 1/refill ms (cfg.interval       *)
(* units) and requested amounts are whole tokens, so both divisions of the *)
(* program, elapsed / interval and needed / refill, are exact (TypeOK      *)
(* checks it) and are computed in the program's order.                     *)
(*                                                                         *)
(* Time.  Every method is synchronous, so all the Date.now() reads of one  *)
(* call see the same instant: a call is one step at the time `now`, and    *)
(* the clock moves between calls and never backwards.                      *)
(***************************************************************************)
EXTENDS Integers, FiniteSets, TLC

\* ------------------------------------------------------------------ bounds
MaxTime == 3          \* clock steps (of 1/refill ms each) the clock may take

Keys == {"a", "b"}

\* bucket.last_consume of a bucket that never granted a consume (-Infinity)
NegInfinity == -1
\* the amount NaN (Number.isNaN(amount))
NaN == -1000

VARIABLES
  cfg,        \* the TokenBucket's options after construction
  now,        \* Date.now(), fixed point
  buckets,    \* this.buckets: a map key -> BucketState
  ret,        \* the call that has just returned: its arguments, its result and
              \* the map before it ("idle" once the clock has moved on)
  hist,       \* history of the run (SpecHist): the grants and a returned wait
  twin        \* a second limiter (SpecTwin) that is given the same calls as
              \* the first, except the extra checks

vars == <<cfg, now, buckets, ret, hist, twin>>

\* ------------------------------------------------------------ construction
Options(c, i, r, n, d) ==
  [capacity |-> c, interval |-> i, refill |-> r, initial |-> n, cooldown |-> d]

\* capacity, interval (ms), refill, initial, cooldown (ms)
CfgDefault == Options(1, 1, 1, 1, 0)      \* initial = capacity, no cooldown
CfgLowInitial == Options(2, 1, 1, 1, 0)   \* initial < capacity
CfgHalfTokens == Options(1, 2, 1, 1, 1)   \* the token wait exceeds the cooldown
CfgLongCooldown == Options(2, 1, 1, 2, 2) \* tokens recover during the cooldown
CfgFastRefill == Options(1, 1, 2, 2, 1)   \* half-ms waits; initial > capacity
CfgEmptyStart == Options(1, 2, 1, 0, 2)   \* initial = 0, with a cooldown

Configs ==
  { CfgDefault, CfgLowInitial, CfgHalfTokens, CfgLongCooldown, CfgFastRefill,
    CfgEmptyStart }

Scale == cfg.interval * cfg.refill
Fix(x) == x * Scale

capacity == Fix(cfg.capacity)
interval == cfg.interval
refill == cfg.refill
initial == Fix(cfg.initial)
cooldown == Fix(cfg.cooldown)

Min(x, y) == IF x <= y THEN x ELSE y
Max(x, y) == IF x >= y THEN x ELSE y

\* ------------------------------------------------------------ the Map
Has(bk, key) == key \in DOMAIN bk
MapSet(bk, key, bucket) ==
  [k \in (DOMAIN bk) \cup {key} |-> IF k = key THEN bucket ELSE bk[k]]
MapDelete(bk, key) == [k \in (DOMAIN bk) \ {key} |-> bk[k]]
EmptyMap == [k \in {} |-> 0]

\* mutant: a new bucket counts its creation as a consume
get_bucket_armed(bk, key, t) ==
  IF Has(bk, key) THEN bk
  ELSE MapSet(bk, key, [tokens |-> initial, last_refill |-> t,
                        last_consume |-> t])

\* ------------------------------------------------------------ private methods
get_bucket(bk, key, t) ==
  IF Has(bk, key) THEN bk
  ELSE MapSet(bk, key, [tokens |-> initial, last_refill |-> t,
                        last_consume |-> NegInfinity])

\* mutant: the refill without the clamp at capacity
refill_bucket_unclamped(bucket, t) ==
  LET elapsed == t - bucket.last_refill
      refill_amount == (elapsed \div interval) * refill
  IN  [bucket EXCEPT !.tokens = bucket.tokens + refill_amount,
                     !.last_refill = t]

\* mutant: the refill adds the tokens and leaves last_refill where it was
refill_bucket_keeping_time(bucket, t) ==
  LET elapsed == t - bucket.last_refill
      refill_amount == (elapsed \div interval) * refill
  IN  [bucket EXCEPT !.tokens = Min(capacity, bucket.tokens + refill_amount)]

refill_bucket(bucket, t) ==
  LET elapsed == t - bucket.last_refill
      refill_amount == (elapsed \div interval) * refill
  IN  [bucket EXCEPT !.tokens = Min(capacity, bucket.tokens + refill_amount),
                     !.last_refill = t]

\* mutant: interval and refill swapped in the wait
calc_token_wait_time_swapped(tokens, amount) ==
  IF tokens >= amount THEN 0
  ELSE LET needed == amount - tokens
       IN  (needed \div interval) * refill

calc_token_wait_time(tokens, amount) ==
  IF tokens >= amount THEN 0
  ELSE LET needed == amount - tokens
       IN  (needed \div refill) * interval

\* now - (-Infinity) is +Infinity, which is >= every cooldown
calc_cooldown_wait_time(bucket, t) ==
  IF cooldown = 0 THEN 0
  ELSE IF bucket.last_consume = NegInfinity THEN 0
  ELSE LET elapsed == t - bucket.last_consume
       IN  IF elapsed >= cooldown THEN 0 ELSE cooldown - elapsed

\* ------------------------------------------------------------ public methods
Result(bk, error, wait_time, removed) ==
  [buckets |-> bk, error |-> error, wait_time |-> wait_time, removed |-> removed]

\* mutant: prune removes every full bucket, its cooldown still running or not
prune_ignoring_cooldown(bk, t) ==
  IF initial < capacity THEN Result(bk, "none", 0, 0)
  ELSE
    LET refilled == [k \in DOMAIN bk |-> refill_bucket(bk[k], t)]
        kept == { k \in DOMAIN bk : refilled[k].tokens < capacity }
    IN  Result([k \in kept |-> refilled[k]], "none", 0,
               Cardinality(DOMAIN bk) - Cardinality(kept))

\* mutant: a check that finds no wait takes the tokens
check_deducting(bk, key, amount, t) ==
  IF amount = NaN THEN Result(bk, "amount must be a number", 0, 0)
  ELSE IF amount < 0 THEN Result(bk, "amount must be >= 0", 0, 0)
  ELSE IF amount > capacity THEN Result(bk, "amount must be <= capacity", 0, 0)
  ELSE
    LET b1 == get_bucket(bk, key, t)
        bucket == refill_bucket(b1[key], t)
        cooldown_wait == calc_cooldown_wait_time(bucket, t)
        token_wait == calc_token_wait_time(bucket.tokens, amount)
        wait_time == Max(cooldown_wait, token_wait)
        after == IF wait_time = 0
                 THEN [bucket EXCEPT !.tokens = bucket.tokens - amount]
                 ELSE bucket
    IN  Result(MapSet(b1, key, after), "none", wait_time, 0)

\* mutant: check reads the stored tokens without refilling first
check_stale(bk, key, amount, t) ==
  IF amount = NaN THEN Result(bk, "amount must be a number", 0, 0)
  ELSE IF amount < 0 THEN Result(bk, "amount must be >= 0", 0, 0)
  ELSE IF amount > capacity THEN Result(bk, "amount must be <= capacity", 0, 0)
  ELSE
    LET b1 == get_bucket(bk, key, t)
        bucket == b1[key]
        cooldown_wait == calc_cooldown_wait_time(bucket, t)
        token_wait == calc_token_wait_time(bucket.tokens, amount)
    IN  Result(MapSet(b1, key, bucket), "none", Max(cooldown_wait, token_wait), 0)

\* mutant: check looks the bucket up and refills it before it validates the
\* amount
check_validating_late(bk, key, amount, t) ==
  LET b1 == get_bucket(bk, key, t)
      bucket == refill_bucket(b1[key], t)
      touched == MapSet(b1, key, bucket)
  IN  IF amount = NaN THEN Result(touched, "amount must be a number", 0, 0)
      ELSE IF amount < 0 THEN Result(touched, "amount must be >= 0", 0, 0)
      ELSE IF amount > capacity
      THEN Result(touched, "amount must be <= capacity", 0, 0)
      ELSE Result(touched, "none",
                  Max(calc_cooldown_wait_time(bucket, t),
                      calc_token_wait_time(bucket.tokens, amount)), 0)

\* mutant: check refuses amount 0 as consume does
check_rejecting_zero(bk, key, amount, t) ==
  IF amount = NaN THEN Result(bk, "amount must be a number", 0, 0)
  ELSE IF amount <= 0 THEN Result(bk, "amount must be > 0", 0, 0)
  ELSE IF amount > capacity THEN Result(bk, "amount must be <= capacity", 0, 0)
  ELSE
    LET b1 == get_bucket(bk, key, t)
        bucket == refill_bucket(b1[key], t)
        cooldown_wait == calc_cooldown_wait_time(bucket, t)
        token_wait == calc_token_wait_time(bucket.tokens, amount)
    IN  Result(MapSet(b1, key, bucket), "none", Max(cooldown_wait, token_wait), 0)

check(bk, key, amount, t) ==
  IF amount = NaN THEN Result(bk, "amount must be a number", 0, 0)
  ELSE IF amount < 0 THEN Result(bk, "amount must be >= 0", 0, 0)
  ELSE IF amount > capacity THEN Result(bk, "amount must be <= capacity", 0, 0)
  ELSE
    LET b1 == get_bucket(bk, key, t)
        bucket == refill_bucket(b1[key], t)
        cooldown_wait == calc_cooldown_wait_time(bucket, t)
        token_wait == calc_token_wait_time(bucket.tokens, amount)
    IN  Result(MapSet(b1, key, bucket), "none", Max(cooldown_wait, token_wait), 0)

\* mutant: a grant deducts the tokens and forgets to arm the cooldown
consume_unarmed(bk, key, amount, t) ==
  IF amount = NaN THEN Result(bk, "amount must be a number", 0, 0)
  ELSE IF amount <= 0 THEN Result(bk, "amount must be > 0", 0, 0)
  ELSE IF amount > capacity THEN Result(bk, "amount must be <= capacity", 0, 0)
  ELSE
    LET b1 == get_bucket(bk, key, t)
        bucket == refill_bucket(b1[key], t)
        cooldown_wait == calc_cooldown_wait_time(bucket, t)
        token_wait == calc_token_wait_time(bucket.tokens, amount)
        wait_time == Max(cooldown_wait, token_wait)
        after == IF wait_time = 0
                 THEN [bucket EXCEPT !.tokens = bucket.tokens - amount]
                 ELSE bucket
    IN  Result(MapSet(b1, key, after), "none", wait_time, 0)

\* mutant: the grant looks at the token wait alone
consume_ignoring_cooldown(bk, key, amount, t) ==
  IF amount = NaN THEN Result(bk, "amount must be a number", 0, 0)
  ELSE IF amount <= 0 THEN Result(bk, "amount must be > 0", 0, 0)
  ELSE IF amount > capacity THEN Result(bk, "amount must be <= capacity", 0, 0)
  ELSE
    LET b1 == get_bucket(bk, key, t)
        bucket == refill_bucket(b1[key], t)
        cooldown_wait == calc_cooldown_wait_time(bucket, t)
        token_wait == calc_token_wait_time(bucket.tokens, amount)
        wait_time == Max(cooldown_wait, token_wait)
        after == IF token_wait = 0
                 THEN [bucket EXCEPT !.tokens = bucket.tokens - amount,
                                     !.last_consume = t]
                 ELSE bucket
    IN  Result(MapSet(b1, key, after), "none", wait_time, 0)

consume(bk, key, amount, t) ==
  IF amount = NaN THEN Result(bk, "amount must be a number", 0, 0)
  ELSE IF amount <= 0 THEN Result(bk, "amount must be > 0", 0, 0)
  ELSE IF amount > capacity THEN Result(bk, "amount must be <= capacity", 0, 0)
  ELSE
    LET b1 == get_bucket(bk, key, t)
        bucket == refill_bucket(b1[key], t)
        cooldown_wait == calc_cooldown_wait_time(bucket, t)
        token_wait == calc_token_wait_time(bucket.tokens, amount)
        wait_time == Max(cooldown_wait, token_wait)
        after == IF wait_time = 0
                 THEN [bucket EXCEPT !.tokens = bucket.tokens - amount,
                                     !.last_consume = t]
                 ELSE bucket
    IN  Result(MapSet(b1, key, after), "none", wait_time, 0)

\* mutant: reset of one key drops every bucket
reset_clearing(bk, key) == Result(EmptyMap, "none", 0, 0)

\* mutant: reset puts the tokens back to initial and keeps the bucket, with its
\* last_refill and its cooldown
reset_refilling(bk, key) ==
  Result(IF Has(bk, key)
         THEN MapSet(bk, key, [bk[key] EXCEPT !.tokens = Min(capacity, initial)])
         ELSE bk,
         "none", 0, 0)

reset(bk, key) == Result(MapDelete(bk, key), "none", 0, 0)

reset_all(bk) == Result(EmptyMap, "none", 0, 0)

size(bk) == Cardinality(DOMAIN bk)

\* mutant: prune without its guard on initial < capacity
prune_unguarded(bk, t) ==
  LET refilled == [k \in DOMAIN bk |-> refill_bucket(bk[k], t)]
      kept == { k \in DOMAIN bk :
                  \/ refilled[k].tokens < capacity
                  \/ calc_cooldown_wait_time(refilled[k], t) > 0 }
  IN  Result([k \in kept |-> refilled[k]], "none", 0,
             Cardinality(DOMAIN bk) - Cardinality(kept))

\* mutant: prune tests the stored tokens, without refilling the buckets first
prune_stale(bk, t) ==
  IF initial < capacity THEN Result(bk, "none", 0, 0)
  ELSE
    LET kept == { k \in DOMAIN bk :
                    \/ bk[k].tokens < capacity
                    \/ calc_cooldown_wait_time(bk[k], t) > 0 }
    IN  Result([k \in kept |-> bk[k]], "none", 0,
               Cardinality(DOMAIN bk) - Cardinality(kept))

prune(bk, t) ==
  IF initial < capacity THEN Result(bk, "none", 0, 0)
  ELSE
    LET refilled == [k \in DOMAIN bk |-> refill_bucket(bk[k], t)]
        kept == { k \in DOMAIN bk :
                    \/ refilled[k].tokens < capacity
                    \/ calc_cooldown_wait_time(refilled[k], t) > 0 }
    IN  Result([k \in kept |-> refilled[k]], "none", 0,
               Cardinality(DOMAIN bk) - Cardinality(kept))

\* ------------------------------------------------------------ the calls
Amounts == { Fix(a) : a \in -1..(cfg.capacity + 1) } \cup {NaN}

Idle ==
  [op |-> "idle", key |-> "a", amount |-> 0, error |-> "none", wait_time |-> 0,
   removed |-> 0, before |-> EmptyMap, follows_check |-> FALSE, check_wait |-> 0]

\* follows_check: the call before this one, with no time passing in between, was
\* a check of the same key and amount that raised no error; check_wait: what it
\* returned.
Call(op, key, amount, r) ==
  LET follows == /\ ret.op = "check"
                 /\ ret.error = "none"
                 /\ ret.key = key
                 /\ ret.amount = amount
  IN  [op |-> op, key |-> key, amount |-> amount, error |-> r.error,
       wait_time |-> r.wait_time, removed |-> r.removed, before |-> buckets,
       follows_check |-> follows,
       check_wait |-> IF follows THEN ret.wait_time ELSE 0]

\* History.  last_grant[k]: the time of the last granted consume of k since k
\* was last reset (NegInfinity: none); prev_grant: last_grant of the key of the
\* call that has just returned, as it was before that call; promise: a wait
\* w > 0 that a check or consume returned for (key, amount), due at
\* deadline = now + w, dropped once a granted consume, reset or reset_all
\* touches the key or the deadline has passed; honoured: the call that has just
\* returned is a consume of the promise's key and amount at its deadline.
NoPromise == [active |-> FALSE, key |-> "a", amount |-> 0, deadline |-> 0]

NoHist ==
  [last_grant |-> [k \in Keys |-> NegInfinity], prev_grant |-> NegInfinity,
   promise |-> NoPromise, honoured |-> FALSE]

Granted(r) == r.op = "consume" /\ r.error = "none" /\ r.wait_time = 0

Removes(r, k) == r.op = "reset_all" \/ (r.op = "reset" /\ r.key = k)

HistAfter(h, r, t, track) ==
  LET waited == r.op \in {"check", "consume"} /\ r.error = "none" /\ r.wait_time > 0
      p == h.promise
  IN  [last_grant |->
         [k \in Keys |-> IF Removes(r, k) THEN NegInfinity
                         ELSE IF Granted(r) /\ r.key = k THEN t
                         ELSE h.last_grant[k]],
       prev_grant |->
         IF r.op \in {"check", "consume"} THEN h.last_grant[r.key] ELSE NegInfinity,
       promise |->
         IF waited /\ track /\ t + r.wait_time <= MaxTime * interval
         THEN [active |-> TRUE, key |-> r.key, amount |-> r.amount,
               deadline |-> t + r.wait_time]
         ELSE IF p.active /\ (Removes(r, p.key) \/ (Granted(r) /\ r.key = p.key)
                                \/ t > p.deadline)
         THEN NoPromise
         ELSE p,
       honoured |->
         /\ r.op = "consume"
         /\ r.error = "none"
         /\ p.active
         /\ r.key = p.key
         /\ r.amount = p.amount
         /\ t = p.deadline]

\* The twin limiter: its map, its map before its last call, what that call
\* returned, whether the call
\* that has just returned was an extra check (one the twin was not given), and
\* early: the keys whose bucket in the first limiter was created by an extra
\* check and has not been reset since.
NoTwin ==
  [buckets |-> EmptyMap, before |-> EmptyMap, error |-> "none", wait_time |-> 0,
   extra |-> FALSE, early |-> {}]

Init ==
  /\ cfg \in Configs
  /\ now = 0
  /\ buckets = EmptyMap
  /\ ret = Idle
  /\ hist = NoHist
  /\ twin = NoTwin

\* Time passes: no call is made, and ret.before is the map the step found.
TickCore ==
  /\ now < MaxTime * interval
  /\ now' = now + interval
  /\ ret' = [Idle EXCEPT !.before = buckets]
  /\ UNCHANGED <<cfg, buckets>>

CheckCore(key, amount) ==
  LET r == check(buckets, key, amount, now)
  IN  /\ buckets' = r.buckets
      /\ ret' = Call("check", key, amount, r)
      /\ UNCHANGED <<cfg, now>>

ConsumeCore(key, amount) ==
  LET r == consume(buckets, key, amount, now)
  IN  /\ buckets' = r.buckets
      /\ ret' = Call("consume", key, amount, r)
      /\ UNCHANGED <<cfg, now>>

ResetCore(key) ==
  LET r == reset(buckets, key)
  IN  /\ buckets' = r.buckets
      /\ ret' = Call("reset", key, 0, r)
      /\ UNCHANGED <<cfg, now>>

ResetAllCore ==
  LET r == reset_all(buckets)
  IN  /\ buckets' = r.buckets
      /\ ret' = Call("reset_all", "a", 0, r)
      /\ UNCHANGED <<cfg, now>>

PruneCore ==
  LET r == prune(buckets, now)
  IN  /\ buckets' = r.buckets
      /\ ret' = Call("prune", "a", 0, r)
      /\ UNCHANGED <<cfg, now>>

\* ------------------------------------------------------------ Spec
Tick == TickCore /\ UNCHANGED <<hist, twin>>
Check(key, amount) == CheckCore(key, amount) /\ UNCHANGED <<hist, twin>>
Consume(key, amount) == ConsumeCore(key, amount) /\ UNCHANGED <<hist, twin>>
Reset(key) == ResetCore(key) /\ UNCHANGED <<hist, twin>>
ResetAll == ResetAllCore /\ UNCHANGED <<hist, twin>>
Prune == PruneCore /\ UNCHANGED <<hist, twin>>

Next ==
  \/ Tick
  \/ \E key \in Keys, amount \in Amounts : Check(key, amount)
  \/ \E key \in Keys, amount \in Amounts : Consume(key, amount)
  \/ \E key \in Keys : Reset(key)
  \/ ResetAll
  \/ Prune

Spec == Init /\ [][Next]_vars

\* ------------------------------------------------------------ SpecHist
\* The same calls, with the history kept.  Amounts are the valid ones; track
\* says whether the caller notes the wait that a call returns: always when no
\* promise is pending, and either way when one is (the new wait replaces it, or
\* the pending one is kept).
ValidAmounts == { Fix(a) : a \in 0..cfg.capacity }

Track == IF hist.promise.active THEN BOOLEAN ELSE {TRUE}

Record(track) == hist' = HistAfter(hist, ret', now', track) /\ UNCHANGED twin

HTick == TickCore /\ Record(FALSE)
HCheck(key, amount, track) == CheckCore(key, amount) /\ Record(track)
HConsume(key, amount, track) == ConsumeCore(key, amount) /\ Record(track)
HReset(key) == ResetCore(key) /\ Record(FALSE)
HResetAll == ResetAllCore /\ Record(FALSE)
HPrune == PruneCore /\ Record(FALSE)

NextHist ==
  \/ HTick
  \/ \E key \in Keys, amount \in ValidAmounts, track \in Track :
       HCheck(key, amount, track)
  \/ \E key \in Keys, amount \in ValidAmounts \ {0}, track \in Track :
       HConsume(key, amount, track)
  \/ \E key \in Keys : HReset(key)
  \/ HResetAll
  \/ HPrune

SpecHist == Init /\ [][NextHist]_vars

\* ------------------------------------------------------------ SpecTwin
\* Two limiters with the same options and the same clock.  Every call is made on
\* both, except ExtraCheck, which is made on the first alone.
TwinAfter(r, early) ==
  [buckets |-> r.buckets, before |-> twin.buckets, error |-> r.error,
   wait_time |-> r.wait_time, extra |-> FALSE, early |-> early]

TTick ==
  /\ TickCore
  /\ twin' = [twin EXCEPT !.extra = FALSE, !.before = EmptyMap]
  /\ UNCHANGED hist

TCheck(key, amount) ==
  /\ CheckCore(key, amount)
  /\ twin' = TwinAfter(check(twin.buckets, key, amount, now), twin.early)
  /\ UNCHANGED hist

TConsume(key, amount) ==
  /\ ConsumeCore(key, amount)
  /\ twin' = TwinAfter(consume(twin.buckets, key, amount, now), twin.early)
  /\ UNCHANGED hist

TReset(key) ==
  /\ ResetCore(key)
  /\ twin' = TwinAfter(reset(twin.buckets, key), twin.early \ {key})
  /\ UNCHANGED hist

TResetAll ==
  /\ ResetAllCore
  /\ twin' = TwinAfter(reset_all(twin.buckets), {})
  /\ UNCHANGED hist

TPrune ==
  /\ PruneCore
  /\ twin' = TwinAfter(prune(twin.buckets, now), twin.early)
  /\ UNCHANGED hist

ExtraCheck(key, amount) ==
  /\ CheckCore(key, amount)
  /\ twin' = [twin EXCEPT !.extra = TRUE, !.before = EmptyMap,
                          !.early = IF Has(buckets, key) THEN @ ELSE @ \cup {key}]
  /\ UNCHANGED hist

\* The extra checks are of one key and of one token: what check does to the map
\* does not depend on the amount, and the keys are interchangeable.
ExtraKeys == {"a"}
ExtraAmounts == {Fix(1)}

NextTwin ==
  \/ TTick
  \/ \E key \in Keys, amount \in ValidAmounts : TCheck(key, amount)
  \/ \E key \in Keys, amount \in ValidAmounts \ {0} : TConsume(key, amount)
  \/ \E key \in Keys : TReset(key)
  \/ TResetAll
  \/ TPrune
  \/ \E key \in ExtraKeys, amount \in ExtraAmounts : ExtraCheck(key, amount)

\* Configurations with initial < capacity, = capacity and > capacity.
TwinConfigs == { CfgLowInitial, CfgHalfTokens, CfgFastRefill }

InitTwin == Init /\ cfg \in TwinConfigs

SpecTwin == InitTwin /\ [][NextTwin]_vars

\* The fixed point is exact: every time is a whole number of clock steps and
\* every token count a whole number of 1/interval tokens, so the divisions of
\* refill_bucket and calc_token_wait_time leave no remainder.
TypeOK ==
  /\ cfg \in Configs
  /\ now \in 0..(MaxTime * interval)
  /\ now % interval = 0
  /\ DOMAIN buckets \subseteq Keys
  /\ \A k \in DOMAIN buckets :
       /\ buckets[k].tokens % refill = 0
       /\ buckets[k].last_refill % interval = 0
       /\ buckets[k].last_refill <= now
       /\ buckets[k].last_consume = NegInfinity
            \/ (buckets[k].last_consume % interval = 0
                /\ buckets[k].last_consume \in 0..now)

\* ------------------------------------------------------------ the claims' terms
\* The call that has just returned was `op` and raised no error.
Returned(op) == ret.op = op /\ ret.error = "none"

\* What a caller can know of key k in map bk at the current time, written out
\* from the documented rules: the tokens refilled to now (a never-seen key
\* holds initial, clamped at capacity), the last granted consume, and the waits.
TokensAt(bk, k) ==
  IF k \in DOMAIN bk
  THEN Min(capacity, bk[k].tokens + ((now - bk[k].last_refill) * refill) \div interval)
  ELSE Min(capacity, initial)

LastConsumeOf(bk, k) ==
  IF k \in DOMAIN bk THEN bk[k].last_consume ELSE NegInfinity

CooldownWaitAt(bk, k) ==
  LET last == LastConsumeOf(bk, k)
  IN  IF cooldown = 0 \/ last = NegInfinity \/ now - last >= cooldown
      THEN 0
      ELSE cooldown - (now - last)

TokenWaitAt(bk, k, a) ==
  IF TokensAt(bk, k) >= a THEN 0
  ELSE ((a - TokensAt(bk, k)) * interval) \div refill

\* ------------------------------------------------------------ C1
\* C1: capacity bound. Every tracked bucket holds 0 <= tokens <= capacity, in
\* every configuration (initial > capacity too) and after every sequence of
\* check, consume, reset, reset_all and prune under a non-decreasing clock.
C1_CapacityBound ==
  \A k \in DOMAIN buckets :
    buckets[k].tokens >= 0 /\ buckets[k].tokens <= capacity

\* a bucket created with initial > capacity, read back clamped at capacity
C1_Witness ==
  /\ initial > capacity
  /\ Returned("check")
  /\ ret.key \notin DOMAIN ret.before
  /\ buckets[ret.key].tokens = capacity

\* ------------------------------------------------------------ C3
\* C3: grant rule of consume. A consume of a valid amount returns wait_time 0
\* exactly when the tokens refilled to now are >= amount and the cooldown wait
\* is 0; then tokens drop by exactly amount from the refilled count and
\* last_consume becomes now; and the wait returned is the one check computes.
C3_GrantRule ==
  Returned("consume") =>
    LET k == ret.key
        a == ret.amount
        T == TokensAt(ret.before, k)
    IN  /\ (ret.wait_time = 0) <=> (T >= a /\ CooldownWaitAt(ret.before, k) = 0)
        /\ ret.wait_time = 0 =>
             /\ buckets[k].tokens = T - a
             /\ buckets[k].last_consume = now
        /\ ret.wait_time = check(ret.before, k, a, now).wait_time

\* a grant from a bucket that had to be refilled first, after an earlier grant
C3_Witness ==
  /\ Returned("consume")
  /\ ret.wait_time = 0
  /\ ret.key \in DOMAIN ret.before
  /\ ret.before[ret.key].last_refill < now
  /\ ret.before[ret.key].tokens < ret.amount
  /\ ret.before[ret.key].last_consume # NegInfinity

\* ------------------------------------------------------------ C4
\* C4: no-op on block. A consume that returns wait_time > 0 deducts nothing and
\* arms no cooldown: the bucket holds the tokens it had at the time of the call
\* (its count refilled to now) and its last_consume is the one before the call,
\* so a check of the same key and amount at the same instant returns the same
\* wait_time.
C4_NoOpOnBlock ==
  (Returned("consume") /\ ret.wait_time > 0) =>
    LET k == ret.key
    IN  /\ buckets[k].tokens = TokensAt(ret.before, k)
        /\ buckets[k].last_consume = LastConsumeOf(ret.before, k)
        /\ check(buckets, k, ret.amount, now).wait_time = ret.wait_time

\* a consume blocked by the cooldown alone, the tokens being enough
C4_Witness ==
  /\ Returned("consume")
  /\ ret.wait_time > 0
  /\ ret.key \in DOMAIN ret.before
  /\ TokensAt(ret.before, ret.key) >= ret.amount

\* ------------------------------------------------------------ C5
\* C5 as stated: a consume that returns wait_time > 0 leaves the limiter state
\* (the tracked keys; tokens, last_refill and last_consume) exactly as it was.
C5_BlockedConsumeChangesNothing ==
  (Returned("consume") /\ ret.wait_time > 0) => buckets = ret.before

\* C5 amended: a consume that returns wait_time > 0 has the effects of the lazy
\* refill and no other: the key is tracked afterwards (a never-seen key's bucket
\* is created), its tokens are the count refilled to now, its last_refill is
\* now, its last_consume is unchanged, and every other key is untouched.
C5_BlockedConsumeOnlyRefills ==
  (Returned("consume") /\ ret.wait_time > 0) =>
    LET k == ret.key
    IN  /\ DOMAIN buckets = DOMAIN ret.before \cup {k}
        /\ \A j \in DOMAIN buckets \ {k} : buckets[j] = ret.before[j]
        /\ buckets[k].tokens = TokensAt(ret.before, k)
        /\ buckets[k].last_refill = now
        /\ buckets[k].last_consume = LastConsumeOf(ret.before, k)

\* a blocked consume that refilled a bucket last refilled at an earlier time,
\* while another key is tracked
C5_Witness ==
  /\ Returned("consume")
  /\ ret.wait_time > 0
  /\ ret.key \in DOMAIN ret.before
  /\ ret.before[ret.key].last_refill < now
  /\ buckets[ret.key].tokens > ret.before[ret.key].tokens
  /\ DOMAIN ret.before = Keys

\* ------------------------------------------------------------ C6
\* C6: wait-time formula. check and consume of a valid amount return
\* max(token_wait, cooldown_wait), with token_wait = 0 if the refilled tokens
\* are >= amount and (amount - tokens) / refill * interval otherwise, and
\* cooldown_wait = 0 if cooldown = 0 or now - last_consume >= cooldown and
\* cooldown - (now - last_consume) otherwise.
C6_WaitFormula ==
  (Returned("check") \/ Returned("consume")) =>
    ret.wait_time = Max(TokenWaitAt(ret.before, ret.key, ret.amount),
                        CooldownWaitAt(ret.before, ret.key))

\* tokens that recovered during a running cooldown: the wait is what is left of
\* the cooldown
C6_Witness ==
  /\ Returned("check")
  /\ ret.key \in DOMAIN ret.before
  /\ ret.amount > 0
  /\ ret.before[ret.key].tokens < ret.amount
  /\ TokensAt(ret.before, ret.key) >= ret.amount
  /\ ret.wait_time > 0
  /\ ret.wait_time = cooldown - (now - ret.before[ret.key].last_consume)

\* ------------------------------------------------------------ C8
\* C8: check/consume equivalence. A consume that follows a check of the same
\* key and amount with no time passing returns the wait_time the check
\* returned, and when that is 0 the consume is granted.
C8_CheckConsumeEquivalence ==
  (Returned("consume") /\ ret.follows_check) =>
    /\ ret.wait_time = ret.check_wait
    /\ ret.check_wait = 0 =>
         /\ buckets[ret.key].last_consume = now
         /\ buckets[ret.key].tokens = ret.before[ret.key].tokens - ret.amount

\* a check that returned 0 on a refilled bucket, and the grant that followed
C8_Witness ==
  /\ Returned("consume")
  /\ ret.follows_check
  /\ ret.check_wait = 0
  /\ ret.wait_time = 0
  /\ ret.before[ret.key].last_consume # NegInfinity

\* a check that returned a wait, and the blocked consume that followed
C8_WitnessBlocked ==
  /\ Returned("consume")
  /\ ret.follows_check
  /\ ret.check_wait > 0

\* ------------------------------------------------------------ C10
\* C10 as stated: after a check of a tracked key, the key's tokens and
\* last_consume are what they were before the call.
C10_CheckKeepsTokens ==
  (Returned("check") /\ ret.key \in DOMAIN ret.before) =>
    /\ buckets[ret.key].tokens = ret.before[ret.key].tokens
    /\ buckets[ret.key].last_consume = ret.before[ret.key].last_consume

\* C10 amended: check never changes last_consume and deducts no token; it
\* changes tokens only by the lazy refill, to
\* min(capacity, tokens + (now - last_refill) / interval * refill), so tokens
\* never decrease and are unchanged when no time has passed since last_refill.
C10_CheckOnlyRefills ==
  (Returned("check") /\ ret.key \in DOMAIN ret.before) =>
    LET k == ret.key
        b == ret.before[k]
    IN  /\ buckets[k].last_consume = b.last_consume
        /\ buckets[k].tokens = TokensAt(ret.before, k)
        /\ buckets[k].tokens >= b.tokens
        /\ b.last_refill = now => buckets[k].tokens = b.tokens

\* a check that refilled a drained bucket
C10_Witness ==
  /\ Returned("check")
  /\ ret.key \in DOMAIN ret.before
  /\ buckets[ret.key].tokens > ret.before[ret.key].tokens
  /\ ret.before[ret.key].last_consume # NegInfinity

\* ------------------------------------------------------------ C2
\* C2: cooldown spacing. Two granted consumes of a key with no reset or
\* reset_all of it in between are at least cooldown apart, whatever checks,
\* blocked consumes and prunes came between them; and a consume made less than
\* cooldown after the last grant, the tokens being enough, returns
\* cooldown - elapsed.
C2_CooldownSpacing ==
  (Returned("consume") /\ hist.prev_grant # NegInfinity) =>
    LET elapsed == now - hist.prev_grant
    IN  /\ ret.wait_time = 0 => elapsed >= cooldown
        /\ (elapsed < cooldown /\ TokensAt(ret.before, ret.key) >= ret.amount) =>
             ret.wait_time = cooldown - elapsed

\* a second grant for a key whose bucket prune had removed after the first
C2_Witness ==
  /\ Returned("consume")
  /\ cooldown > 0
  /\ ret.wait_time = 0
  /\ hist.prev_grant # NegInfinity
  /\ ret.key \notin DOMAIN ret.before

\* a consume held back by the cooldown alone, after a prune that kept the bucket
C2_WitnessBlocked ==
  /\ Returned("consume")
  /\ hist.prev_grant # NegInfinity
  /\ now - hist.prev_grant < cooldown
  /\ TokensAt(ret.before, ret.key) = capacity
  /\ ret.wait_time = cooldown - (now - hist.prev_grant)

\* ------------------------------------------------------------ C7
\* C7: honouring the wait succeeds. If a check or consume of (key, amount)
\* returned w > 0 at time t and no granted consume, reset or reset_all touched
\* the key since (checks, blocked consumes and prunes may have), then
\* consume(key, amount) at time t + w returns 0 and is granted.
C7_HonouredWaitSucceeds ==
  hist.honoured =>
    /\ ret.wait_time = 0
    /\ buckets[ret.key].last_consume = now
    /\ buckets[ret.key].tokens = TokensAt(ret.before, ret.key) - ret.amount

\* a wait for tokens, honoured
C7_Witness ==
  /\ hist.honoured
  /\ Returned("consume")
  /\ ret.key \in DOMAIN ret.before
  /\ TokensAt(ret.before, ret.key) = ret.amount
  /\ ret.before[ret.key].tokens < ret.amount

\* a wait for the cooldown, honoured after a prune removed the bucket
C7_WitnessPruned ==
  /\ hist.honoured
  /\ Returned("consume")
  /\ ret.key \notin DOMAIN ret.before

\* ------------------------------------------------------------ C9
\* C9 as stated: in every configuration, extra check calls inserted anywhere
\* (on never-seen keys too) change the wait_time of no later check or consume:
\* every call made on both limiters returns the same on both.
C9_ExtraChecksUnseen ==
  ((Returned("check") \/ Returned("consume")) /\ ~twin.extra) =>
    /\ twin.error = ret.error
    /\ twin.wait_time = ret.wait_time

\* C9 amended: extra check calls change the wait_time and the granting of no
\* later check or consume when initial >= capacity; when initial < capacity
\* that holds for the keys whose bucket was not created by an extra check (an
\* extra check of an untracked key creates its bucket with initial tokens and
\* starts its refill earlier than the next call would have).
C9_ExtraChecksUnseenUnlessEarly ==
  ((Returned("check") \/ Returned("consume")) /\ ~twin.extra
     /\ (initial >= capacity \/ ret.key \notin twin.early)) =>
    /\ twin.error = ret.error
    /\ twin.wait_time = ret.wait_time

\* a consume that returns the same on both limiters although an extra check has
\* refilled the first limiter's bucket in between
C9_Witness ==
  /\ Returned("consume")
  /\ ~twin.extra
  /\ Has(ret.before, ret.key)
  /\ Has(twin.before, ret.key)
  /\ ret.before[ret.key].last_refill > twin.before[ret.key].last_refill
  /\ ret.before[ret.key].last_refill < now

\* with initial >= capacity: a grant on both limiters for a key that an extra
\* check had created in the first
C9_WitnessEarly ==
  /\ Returned("consume")
  /\ ~twin.extra
  /\ ret.key \in twin.early
  /\ initial >= capacity
  /\ ret.wait_time = 0

\* ------------------------------------------------------------ C11
\* C11: validation fails fast without mutation. check with a NaN amount, an
\* amount < 0 or an amount > capacity, and consume with a NaN amount, an
\* amount <= 0 or an amount > capacity, raise an error and leave the limiter as
\* it was: no bucket is created for a never-seen key and no field of any bucket
\* changes.
C11_ValidationFailsFast ==
  /\ (/\ ret.op = "check"
      /\ (ret.amount = NaN \/ ret.amount < 0 \/ ret.amount > capacity))
       => (ret.error # "none" /\ buckets = ret.before)
  /\ (/\ ret.op = "consume"
      /\ (ret.amount = NaN \/ ret.amount <= 0 \/ ret.amount > capacity))
       => (ret.error # "none" /\ buckets = ret.before)

\* an amount is refused for a key whose bucket a refill would have changed
C11_Witness ==
  /\ ret.op \in {"check", "consume"}
  /\ ret.error # "none"
  /\ ret.key \in DOMAIN ret.before
  /\ ret.before[ret.key].last_refill < now
  /\ ret.before[ret.key].tokens < capacity

\* consume(key, 0) is refused for a key never seen, next to a tracked key
C11_WitnessNeverSeen ==
  /\ ret.op = "consume"
  /\ ret.amount = 0
  /\ ret.error = "amount must be > 0"
  /\ ret.key \notin DOMAIN buckets
  /\ DOMAIN buckets # {}

\* ------------------------------------------------------------ C12
\* The times from now to the end of the clock's range.
Later == { t \in now..(MaxTime * interval) : t % interval = 0 }

\* C12: independent keys. A check, consume or reset on key A never changes the
\* bucket of another key B (its tokens, last_refill, last_consume, or whether it
\* is tracked), and never changes the wait_time that any later check or consume
\* on B returns; the cooldown is per key too.
C12_IndependentKeys ==
  ret.op \in {"check", "consume", "reset"} =>
    \A B \in Keys \ {ret.key} :
      /\ (B \in DOMAIN buckets) = (B \in DOMAIN ret.before)
      /\ B \in DOMAIN buckets => buckets[B] = ret.before[B]
      /\ CooldownWaitAt(buckets, B) = CooldownWaitAt(ret.before, B)
      /\ \A t \in Later, amount \in ValidAmounts :
           /\ check(buckets, B, amount, t).wait_time
                = check(ret.before, B, amount, t).wait_time
           /\ amount > 0 =>
                consume(buckets, B, amount, t).wait_time
                  = consume(ret.before, B, amount, t).wait_time

\* key A is granted and its cooldown armed while key B, drained and inside its
\* own cooldown, stays as it was
C12_Witness ==
  /\ Returned("consume")
  /\ ret.wait_time = 0
  /\ cooldown > 0
  /\ \E B \in DOMAIN buckets \ {ret.key} :
       /\ buckets[B].tokens < capacity
       /\ buckets[B].last_refill < now
       /\ CooldownWaitAt(buckets, B) > 0

\* a reset of key A next to a tracked key B
C12_WitnessReset ==
  /\ Returned("reset")
  /\ ret.key \in DOMAIN ret.before
  /\ DOMAIN buckets # {}

\* ------------------------------------------------------------ C13
\* In map bk, at every time from now on, key k answers a check or a consume as
\* a key never seen does: from a bucket made at that time with tokens = initial
\* (clamped at capacity by the refill) and no consume behind it.
BehavesAsNeverSeen(bk, k) ==
  \A t \in Later, amount \in ValidAmounts :
    LET c == check(bk, k, amount, t)
        n == check(EmptyMap, k, amount, t)
        fresh == [tokens |-> Min(capacity, initial), last_refill |-> t,
                  last_consume |-> NegInfinity]
    IN  /\ c.error = "none"
        /\ c.wait_time = n.wait_time
        /\ c.wait_time = calc_token_wait_time(fresh.tokens, amount)
        /\ c.buckets[k] = fresh
        /\ amount > 0 =>
             LET cc == consume(bk, k, amount, t)
                 nn == consume(EmptyMap, k, amount, t)
             IN  /\ cc.error = "none"
                 /\ cc.wait_time = nn.wait_time
                 /\ cc.wait_time = c.wait_time
                 /\ cc.buckets[k] = nn.buckets[k]

\* C13: reset gives a fresh bucket. After reset(key) or reset_all(), the next
\* check or consume of a removed key behaves exactly as for a never-seen key
\* (tokens start at initial, last_refill = now, no cooldown history); reset of
\* an absent key and reset_all on an empty limiter raise no error and change
\* nothing.
C13_ResetGivesFreshBucket ==
  /\ ret.op = "reset" =>
       /\ ret.error = "none"
       /\ ret.key \notin DOMAIN buckets
       /\ BehavesAsNeverSeen(buckets, ret.key)
       /\ ret.key \notin DOMAIN ret.before => buckets = ret.before
  /\ ret.op = "reset_all" =>
       /\ ret.error = "none"
       /\ buckets = EmptyMap
       /\ \A k \in Keys : BehavesAsNeverSeen(buckets, k)
       /\ ret.before = EmptyMap => buckets = ret.before

\* reset of a key that was drained below initial and inside its cooldown
C13_Witness ==
  /\ Returned("reset")
  /\ ret.key \in DOMAIN ret.before
  /\ TokensAt(ret.before, ret.key) < Min(capacity, initial)
  /\ CooldownWaitAt(ret.before, ret.key) > 0
  /\ ret.before[ret.key].last_refill < now

\* reset of a key that is not tracked, next to one that is
C13_WitnessAbsent ==
  /\ Returned("reset")
  /\ ret.key \notin DOMAIN ret.before
  /\ DOMAIN buckets # {}

\* reset_all drops two buckets; reset_all on an empty limiter
C13_WitnessResetAll ==
  /\ Returned("reset_all")
  /\ Cardinality(DOMAIN ret.before) = 2

C13_WitnessResetAllEmpty ==
  /\ Returned("reset_all")
  /\ ret.before = EmptyMap

\* ------------------------------------------------------------ C14
\* C14: prune guard. When initial < capacity, prune() returns 0 in every
\* reachable state, removes no bucket, and leaves every bucket's tokens,
\* last_refill and last_consume unchanged.
C14_PruneGuard ==
  (ret.op = "prune" /\ initial < capacity) =>
    /\ ret.error = "none"
    /\ ret.removed = 0
    /\ DOMAIN buckets = DOMAIN ret.before
    /\ \A k \in DOMAIN buckets :
         /\ buckets[k].tokens = ret.before[k].tokens
         /\ buckets[k].last_refill = ret.before[k].last_refill
         /\ buckets[k].last_consume = ret.before[k].last_consume

\* prune under initial < capacity, of a bucket that has refilled to capacity
\* since it was last touched and of one that has refilled part of the way
C14_Witness ==
  /\ Returned("prune")
  /\ initial < capacity
  /\ \E k \in DOMAIN ret.before :
       /\ ret.before[k].last_refill < now
       /\ ret.before[k].tokens < capacity
       /\ TokensAt(ret.before, k) = capacity
       /\ CooldownWaitAt(ret.before, k) = 0

\* ------------------------------------------------------------ C16
\* C16: prune removal rule. When initial >= capacity, prune() refills every
\* tracked bucket to now and removes exactly the buckets whose refilled tokens
\* equal capacity and whose cooldown wait is 0; every other bucket stays, and
\* the return value is the number of buckets removed, which is the decrease of
\* size.
C16_PruneRemovalRule ==
  (ret.op = "prune" /\ initial >= capacity) =>
    LET removable == { k \in DOMAIN ret.before :
                         /\ TokensAt(ret.before, k) = capacity
                         /\ CooldownWaitAt(ret.before, k) = 0 }
    IN  /\ ret.error = "none"
        /\ DOMAIN buckets = DOMAIN ret.before \ removable
        /\ \A k \in DOMAIN buckets :
             /\ buckets[k].tokens = TokensAt(ret.before, k)
             /\ buckets[k].last_refill = now
             /\ buckets[k].last_consume = ret.before[k].last_consume
        /\ ret.removed = Cardinality(removable)
        /\ ret.removed = size(ret.before) - size(buckets)

\* one prune removes a bucket that has refilled to capacity and keeps, refilled,
\* one that is full but inside its cooldown or still short of capacity
C16_Witness ==
  /\ Returned("prune")
  /\ initial >= capacity
  /\ ret.removed = 1
  /\ \E k \in DOMAIN ret.before \ DOMAIN buckets :
       ret.before[k].tokens < capacity
  /\ \E k \in DOMAIN buckets : ret.before[k].last_refill < now

\* a full bucket is kept because its cooldown has not run out
C16_WitnessCooldown ==
  /\ Returned("prune")
  /\ initial >= capacity
  /\ \E k \in DOMAIN buckets :
       buckets[k].tokens = capacity /\ CooldownWaitAt(buckets, k) > 0

\* ------------------------------------------------------------ C17
\* The keys tracked after the call that has just returned, reckoned from the
\* keys tracked before it: a check or consume with a valid amount adds its key,
\* reset removes its key, reset_all removes every key, prune removes the keys
\* it reports, and a refused call and the passage of time (ret.op = "idle",
\* the map before being the map the clock step found) remove and add none.
\* Starting from no key, this is the set of keys accessed with a valid amount
\* and not removed since.
TrackedKeys ==
  LET was == DOMAIN ret.before
  IN  CASE ret.op \in {"check", "consume"} ->
             IF ret.error = "none" THEN was \cup {ret.key} ELSE was
        [] ret.op = "reset" -> was \ {ret.key}
        [] ret.op = "reset_all" -> {}
        [] ret.op = "prune" -> was \cap DOMAIN buckets
        [] OTHER -> was

\* C17: size counts tracked keys. size equals the number of distinct keys that
\* have been accessed by a check or consume with a valid amount and not removed
\* since by reset, reset_all or prune; a bucket is never removed by any other
\* operation or by the passage of time.
C17_SizeCountsTrackedKeys ==
  /\ DOMAIN buckets = TrackedKeys
  /\ size(buckets) = Cardinality(TrackedKeys)
  /\ ret.op = "prune" => size(buckets) = size(ret.before) - ret.removed
  /\ ret.op \notin {"reset", "reset_all", "prune"} =>
       DOMAIN ret.before \subseteq DOMAIN buckets

\* a second key is first accessed by a consume that is granted: size is 2
C17_Witness ==
  /\ Returned("consume")
  /\ ret.key \notin DOMAIN ret.before
  /\ size(ret.before) = 1
  /\ size(buckets) = 2

\* time has passed over two buckets that are full and past their cooldown
C17_WitnessIdle ==
  /\ ret.op = "idle"
  /\ now > 0
  /\ size(buckets) = 2
  /\ \A k \in DOMAIN buckets :
       TokensAt(buckets, k) = capacity /\ CooldownWaitAt(buckets, k) = 0

\* a refused call on a key never seen leaves size at 1
C17_WitnessRefused ==
  /\ ret.op \in {"check", "consume"}
  /\ ret.error # "none"
  /\ ret.key \notin DOMAIN ret.before
  /\ size(buckets) = 1

\* ------------------------------------------------------------ C18
\* C18: zero-amount check probes the cooldown only. check(key, 0) is permitted
\* and returns exactly the key's cooldown wait, independent of the token count.
C18_ZeroCheckIsCooldownWait ==
  (ret.op = "check" /\ ret.amount = 0) =>
    /\ ret.error = "none"
    /\ ret.wait_time = CooldownWaitAt(ret.before, ret.key)
    /\ ret.wait_time =
         IF LastConsumeOf(ret.before, ret.key) = NegInfinity THEN 0
         ELSE Max(0, cooldown - (now - LastConsumeOf(ret.before, ret.key)))

\* check(key, 0) of a bucket with no token returns the cooldown that is left,
\* where a check of one token would wait longer for the token
C18_Witness ==
  /\ Returned("check")
  /\ ret.amount = 0
  /\ TokensAt(ret.before, ret.key) = 0
  /\ ret.wait_time > 0
  /\ TokenWaitAt(ret.before, ret.key, Fix(1)) > ret.wait_time

\* check(key, 0) of an empty bucket past its cooldown returns 0
C18_WitnessEmpty ==
  /\ Returned("check")
  /\ ret.amount = 0
  /\ TokensAt(ret.before, ret.key) = 0
  /\ LastConsumeOf(ret.before, ret.key) # NegInfinity
  /\ ret.wait_time = 0

\* ------------------------------------------------------------ C20
\* A check or consume that raised no error has first set its bucket's tokens to
\* min(capacity, tokens + (now - last_refill) / interval * refill) and its
\* last_refill to now (a granted consume then deducts its amount); so a drained
\* bucket holds min(capacity, e / interval * refill) after time e, and a key
\* first accessed holds initial (clamped at capacity) whatever the time.
CheckAndConsumeRefill ==
  (Returned("check") \/ Returned("consume")) =>
    LET k == ret.key
        deducted == IF ret.op = "consume" /\ ret.wait_time = 0
                    THEN ret.amount ELSE 0
        refilled == buckets[k].tokens + deducted
    IN  /\ buckets[k].last_refill = now
        /\ refilled = TokensAt(ret.before, k)
        /\ (k \in DOMAIN ret.before /\ ret.before[k].tokens = 0) =>
             refilled = Min(capacity,
                            ((now - ret.before[k].last_refill) * refill)
                              \div interval)
        /\ k \notin DOMAIN ret.before => refilled = Min(capacity, initial)

\* Every bucket that a prune leaves tracked has been refilled to now.
PruneRefills ==
  \A k \in DOMAIN buckets :
    /\ buckets[k].last_refill = now
    /\ buckets[k].tokens = TokensAt(ret.before, k)

\* C20 as stated: lazy refill. Every check, consume and prune first sets the
\* bucket's tokens to min(capacity, tokens + (now - last_refill) / interval *
\* refill) and last_refill to now, so after draining a bucket and letting time
\* e pass the bucket holds min(capacity, e / interval * refill); time that
\* passes before a key's first access adds nothing.
C20_EveryCallRefills ==
  /\ CheckAndConsumeRefill
  /\ ret.op = "prune" => PruneRefills

\* C20 as it holds: the same of every check and consume, and of prune when
\* initial >= capacity; when initial < capacity prune refills no bucket, it
\* leaves tokens and last_refill as they were.
C20_LazyRefill ==
  /\ CheckAndConsumeRefill
  /\ (ret.op = "prune" /\ initial >= capacity) => PruneRefills
  /\ (ret.op = "prune" /\ initial < capacity) => buckets = ret.before

\* a bucket drained to 0 is checked one or more clock steps later and holds
\* part of its capacity
C20_Witness ==
  /\ Returned("check")
  /\ ret.key \in DOMAIN ret.before
  /\ ret.before[ret.key].tokens = 0
  /\ ret.before[ret.key].last_refill < now
  /\ buckets[ret.key].tokens > 0
  /\ buckets[ret.key].tokens < capacity

\* a key first accessed after time has passed holds initial, below capacity
C20_WitnessFirstAccess ==
  /\ Returned("consume")
  /\ ret.key \notin DOMAIN ret.before
  /\ now > 0
  /\ initial < capacity
  /\ ret.wait_time > 0
  /\ buckets[ret.key].tokens = initial

\* prune under initial >= capacity keeps a bucket and refills it
C20_WitnessPrune ==
  /\ Returned("prune")
  /\ initial >= capacity
  /\ \E k \in DOMAIN buckets :
       /\ ret.before[k].last_refill < now
       /\ buckets[k].tokens > ret.before[k].tokens

\* prune under initial < capacity leaves a stale bucket stale
C20_WitnessGuardedPrune ==
  /\ Returned("prune")
  /\ initial < capacity
  /\ \E k \in DOMAIN buckets :
       /\ buckets[k].last_refill < now
       /\ buckets[k].tokens < TokensAt(buckets, k)

\* ------------------------------------------------------------ SpecNew
\* Construction.  The constructor copies the options into the instance and
\* raises nothing.
constructor(options) ==
  [error |-> "none",
   instance |-> [capacity |-> options.capacity, interval |-> options.interval,
                 refill |-> options.refill, initial |-> options.initial,
                 cooldown |-> options.cooldown]]

\* Options that break one requirement each: capacity > 0, interval > 0,
\* refill > 0, initial >= 0, cooldown >= 0.
InvalidOptions ==
  { Options(0, 1, 1, 0, 0), Options(1, 0, 1, 1, 0), Options(1, 1, 0, 1, 0),
    Options(1, 1, 1, -1, 0), Options(1, 1, 1, 1, -1) }

ValidOptions(options) ==
  /\ options.capacity > 0
  /\ options.interval > 0
  /\ options.refill > 0
  /\ options.initial >= 0
  /\ options.cooldown >= 0

\* `new TokenBucket(options)` in place of the limiter in use: when the
\* constructor raises an error there is no new instance and the old one stays.
New(options) ==
  LET r == constructor(options)
  IN  /\ cfg' = IF r.error = "none" THEN r.instance ELSE cfg
      /\ buckets' = IF r.error = "none" THEN EmptyMap ELSE buckets
      /\ ret' = [Idle EXCEPT !.op = "new", !.error = r.error,
                             !.before = buckets]
      /\ UNCHANGED <<now, hist, twin>>

\* With interval = 0 or refill = 0 the code divides by zero and goes on with
\* Infinity and NaN, which the fixed point has no value for: the calls are
\* made on the instances whose arithmetic is finite.
Finite == cfg.interval > 0 /\ cfg.refill > 0

NTick == Finite /\ Tick
NCheck(key, amount) == Finite /\ Check(key, amount)
NConsume(key, amount) == Finite /\ Consume(key, amount)

NextNew ==
  \/ \E options \in InvalidOptions \cup {CfgDefault} : New(options)
  \/ NTick
  \/ \E key \in Keys, amount \in Amounts : NCheck(key, amount)
  \/ \E key \in Keys, amount \in Amounts : NConsume(key, amount)

InitNew == Init /\ cfg = CfgDefault

SpecNew == InitNew /\ [][NextNew]_vars

\* ------------------------------------------------------------ C19
\* C19: construction validates its configuration. Constructing a limiter with
\* capacity <= 0, interval <= 0, refill <= 0, initial < 0 or cooldown < 0 fails
\* with a configuration error: no limiter instance with such parameters exists.
C19_ConstructionValidates == ValidOptions(cfg)

\* ------------------------------------------------------------ SpecPrune
\* Two limiters with the same options and the same clock, as in SpecTwin.
\* Every check, consume, reset and reset_all is made on both; prune is called
\* on the first alone, at any point.
ExtraPrune ==
  /\ PruneCore
  /\ twin' = [twin EXCEPT !.extra = TRUE, !.before = EmptyMap]
  /\ UNCHANGED hist

NextPrune ==
  \/ TTick
  \/ \E key \in Keys, amount \in ValidAmounts : TCheck(key, amount)
  \/ \E key \in Keys, amount \in ValidAmounts \ {0} : TConsume(key, amount)
  \/ \E key \in Keys : TReset(key)
  \/ TResetAll
  \/ ExtraPrune

\* The configurations with initial >= capacity.
PruneConfigs == { c \in Configs : c.initial >= c.capacity }

InitPrune == Init /\ cfg \in PruneConfigs

SpecPrune == InitPrune /\ [][NextPrune]_vars

\* ------------------------------------------------------------ C15
\* The call that has just returned was the first access of a key since a prune
\* removed it from the first limiter; the second limiter has tracked it all
\* along.
Regenerated ==
  /\ Returned("check") \/ Returned("consume")
  /\ ret.key \notin DOMAIN ret.before
  /\ ret.key \in DOMAIN twin.before

\* The check or consume that has just returned got from the pruned limiter the
\* answer the unpruned one gave.
SameAnswers ==
  (ret.op \in {"check", "consume"} /\ ~twin.extra) =>
    /\ twin.error = ret.error
    /\ twin.wait_time = ret.wait_time

\* C15 as stated: prune is transparent. When initial >= capacity, inserting
\* prune() calls at any points of a sequence of operations does not change the
\* wait_time, and so the granting, of any check or consume in it; a pruned key
\* regenerates on its next access to the state the unpruned bucket would have
\* had.
C15_PruneIsTransparent ==
  /\ SameAnswers
  /\ Regenerated => buckets[ret.key] = twin.buckets[ret.key]

\* C15 as it holds: the answers are the same, and at every moment every key
\* has the same refilled tokens and the same cooldown wait in both limiters. A
\* pruned key regenerates with the tokens and last_refill of the unpruned
\* bucket; its last_consume is that of the unpruned bucket after a consume,
\* and after a check it is -Infinity where the unpruned bucket keeps the time
\* of its last grant, whose cooldown has run out.
C15_PruneIsUnobservable ==
  /\ SameAnswers
  /\ \A k \in Keys :
       /\ TokensAt(buckets, k) = TokensAt(twin.buckets, k)
       /\ CooldownWaitAt(buckets, k) = CooldownWaitAt(twin.buckets, k)
  /\ Regenerated =>
       LET mine == buckets[ret.key]
           theirs == twin.buckets[ret.key]
       IN  /\ mine.tokens = theirs.tokens
           /\ mine.last_refill = theirs.last_refill
           /\ ret.op = "consume" => mine = theirs
           /\ ret.op = "check" =>
                /\ mine.last_consume = NegInfinity
                /\ CooldownWaitAt(twin.buckets, ret.key) = 0

\* a key that was granted, then pruned once full and past its cooldown, is
\* consumed again
C15_Witness ==
  /\ Regenerated
  /\ ret.op = "consume"
  /\ cooldown > 0
  /\ twin.before[ret.key].last_consume # NegInfinity
  /\ ret.wait_time = 0

\* the same key is checked instead: the regenerated bucket has no last_consume
C15_WitnessCheck ==
  /\ Regenerated
  /\ ret.op = "check"
  /\ twin.buckets[ret.key].last_consume # NegInfinity
  /\ buckets[ret.key].last_consume = NegInfinity

\* ------------------------------------------------------------ C21
\* C21: first consumption is never blocked by cooldown. For a key with no
\* bucket (never seen, reset, or pruned) and any cooldown >= 0, the cooldown
\* wait is 0, so consume(key, amount) with 0 < amount <= min(initial, capacity)
\* is granted with wait_time 0, even immediately after a successful consume on
\* another key.
C21_FirstConsumeNotBlocked ==
  /\ \A k \in Keys \ DOMAIN buckets :
       /\ CooldownWaitAt(buckets, k) = 0
       /\ \A amount \in ValidAmounts :
            (amount > 0 /\ amount <= Min(initial, capacity)) =>
              LET r == consume(buckets, k, amount, now)
              IN  /\ r.error = "none"
                  /\ r.wait_time = 0
                  /\ r.buckets[k].last_consume = now
  /\ (/\ Returned("consume")
      /\ ret.key \notin DOMAIN ret.before
      /\ ret.amount <= Min(initial, capacity)) =>
       /\ ret.wait_time = 0
       /\ buckets[ret.key].last_consume = now
       /\ buckets[ret.key].tokens = Min(initial, capacity) - ret.amount

\* the first consume of a key is granted at the instant at which another key
\* was granted and began its cooldown
C21_Witness ==
  /\ Returned("consume")
  /\ ret.key \notin DOMAIN ret.before
  /\ ret.wait_time = 0
  /\ cooldown > 0
  /\ \E B \in DOMAIN ret.before :
       /\ ret.before[B].last_consume = now
       /\ CooldownWaitAt(buckets, B) = cooldown

\* the key was tracked and inside its cooldown, was reset, and is granted at once
C21_WitnessAfterReset ==
  /\ ret.op = "reset"
  /\ ret.key \in DOMAIN ret.before
  /\ CooldownWaitAt(ret.before, ret.key) > 0
  /\ initial > 0

\* ------------------------------------------------------------ SpecRate
\* The same calls with the grants kept: hist.granted[k][i] is the sum of the
\* amounts that consumes of key k were granted at time i * interval, since the
\* last reset or reset_all of k.  The grants are kept for one key: the keys
\* are interchangeable, and the calls are made on both.
Steps == 0..MaxTime

RateKeys == {"a"}

NoGrants == [granted |-> [k \in RateKeys |-> [i \in Steps |-> 0]]]

GrantsAfter(h, r, t) ==
  [granted |->
     [k \in RateKeys |->
        IF Removes(r, k) THEN [i \in Steps |-> 0]
        ELSE IF Granted(r) /\ r.key = k
        THEN [h.granted[k] EXCEPT ![t \div interval] = @ + r.amount]
        ELSE h.granted[k]]]

Grants == hist' = GrantsAfter(hist, ret', now') /\ UNCHANGED twin

RTick == TickCore /\ Grants
RCheck(key, amount) == CheckCore(key, amount) /\ Grants
RConsume(key, amount) == ConsumeCore(key, amount) /\ Grants
RReset(key) == ResetCore(key) /\ Grants
RResetAll == ResetAllCore /\ Grants
RPrune == PruneCore /\ Grants

NextRate ==
  \/ RTick
  \/ \E key \in Keys, amount \in ValidAmounts : RCheck(key, amount)
  \/ \E key \in Keys, amount \in ValidAmounts \ {0} : RConsume(key, amount)
  \/ \E key \in Keys : RReset(key)
  \/ RResetAll
  \/ RPrune

\* Bursts of two tokens with no cooldown, a cooldown shorter than the
\* recovery, initial above capacity, and the default.
RateConfigs == { CfgDefault, CfgLowInitial, CfgLongCooldown, CfgFastRefill }

InitRate ==
  /\ cfg \in RateConfigs
  /\ now = 0
  /\ buckets = EmptyMap
  /\ ret = Idle
  /\ hist = NoGrants
  /\ twin = NoTwin

SpecRate == InitRate /\ [][NextRate]_vars

\* ------------------------------------------------------------ C22
RECURSIVE GrantedIn(_, _, _)
\* The sum of the amounts granted to key k at the times i * interval .. j * interval.
GrantedIn(k, i, j) ==
  IF i > j THEN 0 ELSE hist.granted[k][i] + GrantedIn(k, i + 1, j)

\* C22: rate bound. Under a valid configuration and a non-decreasing clock,
\* for any key and any times t0 <= t1 with no reset or reset_all of that key in
\* between, the sum of the amounts granted by successful consumes of that key
\* in [t0, t1] is at most capacity + (t1 - t0) * refill / interval, whatever
\* check and prune calls are interleaved.
C22_RateBound ==
  \A k \in RateKeys, i \in Steps, j \in Steps :
    LET t0 == i * interval
        t1 == j * interval
    IN  (t0 <= t1 /\ t1 <= now) =>
          GrantedIn(k, i, j) <= capacity + ((t1 - t0) \div interval) * refill

\* a key has been granted all that the bound allows over a window that is not
\* empty, with a prune in between
C22_Witness ==
  /\ ret.op = "prune"
  /\ \E k \in RateKeys, i \in Steps, j \in Steps :
       /\ i < j
       /\ j * interval <= now
       /\ hist.granted[k][i] > 0
       /\ hist.granted[k][j] > 0
       /\ GrantedIn(k, i, j) = capacity + (j - i) * refill

\* ------------------------------------------------------------ SpecWait
\* The same calls with one returned wait kept.  hist.promise: a wait w > 0
\* that a check or consume returned for (key, amount) at time `made`, due at
\* deadline = made + w; the caller notes it or not, and notes no other while
\* it is pending; it is dropped once a granted consume, reset or reset_all
\* touches the key or the deadline is reached.  hist.due: when the call that
\* has just returned is a consume of the promise's key and amount before the
\* deadline, what is left of the promised wait (0: the call is no such call).
NoWait ==
  [promise |-> [active |-> FALSE, key |-> "a", amount |-> 0, made |-> 0,
                deadline |-> 0],
   due |-> 0]

WaitAfter(h, r, t, note) ==
  LET waited == r.op \in {"check", "consume"} /\ r.error = "none" /\ r.wait_time > 0
      p == h.promise
      pending == p.active /\ t < p.deadline
  IN  [promise |->
         IF pending
         THEN IF Removes(r, p.key) \/ (Granted(r) /\ r.key = p.key)
              THEN NoWait.promise
              ELSE p
         ELSE IF waited /\ note /\ t + r.wait_time <= MaxTime * interval
         THEN [active |-> TRUE, key |-> r.key, amount |-> r.amount,
               made |-> t, deadline |-> t + r.wait_time]
         ELSE NoWait.promise,
       due |->
         IF /\ pending
            /\ r.op = "consume"
            /\ r.error = "none"
            /\ r.key = p.key
            /\ r.amount = p.amount
         THEN p.deadline - t
         ELSE 0]

Waits(note) == hist' = WaitAfter(hist, ret', now', note) /\ UNCHANGED twin

WTick == TickCore /\ Waits(FALSE)
WCheck(key, amount, note) == CheckCore(key, amount) /\ Waits(note)
WConsume(key, amount, note) == ConsumeCore(key, amount) /\ Waits(note)
WReset(key) == ResetCore(key) /\ Waits(FALSE)
WResetAll == ResetAllCore /\ Waits(FALSE)
WPrune == PruneCore /\ Waits(FALSE)

NextWait ==
  \/ WTick
  \/ \E key \in Keys, amount \in ValidAmounts, note \in BOOLEAN :
       WCheck(key, amount, note)
  \/ \E key \in Keys, amount \in ValidAmounts \ {0}, note \in BOOLEAN :
       WConsume(key, amount, note)
  \/ \E key \in Keys : WReset(key)
  \/ WResetAll
  \/ WPrune

InitWait ==
  /\ cfg \in Configs
  /\ now = 0
  /\ buckets = EmptyMap
  /\ ret = Idle
  /\ hist = NoWait
  /\ twin = NoTwin

SpecWait == InitWait /\ [][NextWait]_vars

\* ------------------------------------------------------------ C23
\* C23: the returned wait is minimal. If check(key, amount) or
\* consume(key, amount) returns wait_time = w > 0 at time t and no successful
\* consume, reset or reset_all touches that key in between, then every
\* consume(key, amount) at a time t' with t <= t' < t + w is blocked and
\* returns exactly w - (t' - t); in particular prune cannot remove the bucket
\* before t + w.
C23_WaitIsMinimal ==
  /\ hist.due > 0 =>
       /\ ret.wait_time = hist.due
       /\ buckets[ret.key].last_consume = ret.before[ret.key].last_consume
       /\ buckets[ret.key].tokens < ret.amount
            \/ CooldownWaitAt(buckets, ret.key) > 0
  /\ (hist.promise.active /\ now < hist.promise.deadline) =>
       hist.promise.key \in DOMAIN buckets

\* a consume made after the wait was returned and before it has run out is
\* blocked for the rest of it
C23_Witness ==
  /\ Returned("consume")
  /\ hist.due > 0
  /\ hist.promise.active
  /\ hist.promise.made < now
  /\ ret.wait_time = hist.promise.deadline - now

\* a prune is made while a wait is pending on a bucket that is full and inside
\* its cooldown
C23_WitnessPrune ==
  /\ Returned("prune")
  /\ initial >= capacity
  /\ hist.promise.active
  /\ now < hist.promise.deadline
  /\ TokensAt(buckets, hist.promise.key) = capacity

\* ------------------------------------------------------------ SpecIdle
\* The same calls with, for every tracked key, the time since which it has
\* been idle: hist.idle_since[k] is the time at which k's bucket was created
\* or, if later, of its last granted consume (NegInfinity: k is not tracked).
NoIdle == [idle_since |-> [k \in Keys |-> NegInfinity]]

IdleAfter(h, r, bk, t) ==
  [idle_since |->
     [k \in Keys |->
        IF k \notin DOMAIN bk THEN NegInfinity
        ELSE IF Granted(r) /\ r.key = k THEN t
        ELSE IF k \notin DOMAIN r.before THEN t
        ELSE h.idle_since[k]]]

Idles == hist' = IdleAfter(hist, ret', buckets', now') /\ UNCHANGED twin

ITick == TickCore /\ Idles
ICheck(key, amount) == CheckCore(key, amount) /\ Idles
IConsume(key, amount) == ConsumeCore(key, amount) /\ Idles
IReset(key) == ResetCore(key) /\ Idles
IResetAll == ResetAllCore /\ Idles
IPrune == PruneCore /\ Idles

NextIdle ==
  \/ ITick
  \/ \E key \in Keys, amount \in ValidAmounts : ICheck(key, amount)
  \/ \E key \in Keys, amount \in ValidAmounts \ {0} : IConsume(key, amount)
  \/ \E key \in Keys : IReset(key)
  \/ IResetAll
  \/ IPrune

InitIdle ==
  /\ cfg \in Configs
  /\ now = 0
  /\ buckets = EmptyMap
  /\ ret = Idle
  /\ hist = NoIdle
  /\ twin = NoTwin

SpecIdle == InitIdle /\ [][NextIdle]_vars

\* ------------------------------------------------------------ C24
\* max(cooldown, capacity * interval / refill): the time after which a bucket
\* has left its cooldown and refilled from 0 to capacity.
RecoveryTime == Max(cooldown, (capacity * interval) \div refill)

\* C24: pruning eventually reclaims idle keys. When initial >= capacity, a
\* tracked key on which no consume is granted for at least
\* max(cooldown, capacity * interval / refill) milliseconds after its creation
\* or last successful consume is removed by the next prune() call; hence if
\* all keys stay idle that long, prune() brings size to 0.  Stated of the keys
\* that a prune leaves tracked: each was created or granted a consume less
\* than that time ago.
C24_PruneReclaimsIdleKeys ==
  (ret.op = "prune" /\ initial >= capacity) =>
    /\ \A k \in DOMAIN buckets :
         /\ hist.idle_since[k] # NegInfinity
         /\ now - hist.idle_since[k] < RecoveryTime
    /\ (\A k \in DOMAIN ret.before :
          hist.idle_since[k] = NegInfinity
            \/ now - hist.idle_since[k] >= RecoveryTime)
         => size(buckets) = 0

\* two keys, both granted a consume and idle since for the recovery time with
\* their stored tokens not yet refilled, are removed by one prune
C24_Witness ==
  /\ Returned("prune")
  /\ initial >= capacity
  /\ size(ret.before) = 2
  /\ size(buckets) = 0
  /\ \A k \in DOMAIN ret.before :
       /\ ret.before[k].last_consume # NegInfinity
       /\ now - ret.before[k].last_consume >= RecoveryTime
       /\ ret.before[k].tokens < capacity

\* a key idle for less than the recovery time is kept by a prune that removes
\* the other
C24_WitnessKept ==
  /\ Returned("prune")
  /\ initial >= capacity
  /\ ret.removed = 1
  /\ \E k \in DOMAIN buckets :
       /\ now - hist.idle_since[k] < RecoveryTime
       /\ hist.idle_since[k] < now

====
